---- MODULE Spec2Model ----
(***************************************************************************)
(* history-grep (src/main.rs): a command-line search of a shell history    *)
(* file.  The model has three parts.                                        *)
(*                                                                          *)
(*  - The strings of the program and the operations on them                 *)
(*    (str::find, slicing, str::replacen), and the two matchers             *)
(*    ordered_match and unordered_match built from them.                    *)
(*  - The History object: History::new (the initial state), apply_flags,    *)
(*    load_history, load_history_map and query_history_map, driven in the   *)
(*    order main calls them.                                                *)
(*  - A harness that applies the two matchers to every line and term list   *)
(*    of a bounded universe (MatchSpec).                                    *)
(*                                                                          *)
(* A Rust String is modelled as a sequence of characters; a character is a  *)
(* one-letter TLA+ string.  str::find works on bytes, but a match of a      *)
(* valid UTF-8 pattern always lies on character boundaries, so positions    *)
(* counted in characters behave as positions counted in bytes do.           *)
(***************************************************************************)
EXTENDS Integers, Sequences, FiniteSets, TLC

VARIABLES
    cli,              \* the parsed command line (struct Cli)
    env,              \* what the environment answers: $SHELL, `sh -c 'echo $0'`
    disk,             \* the content of the file that File::open(history_path) opens
    overflow_checks,  \* the build: TRUE = overflow-checks on (debug), FALSE = release
    pc,               \* main's position
    search_terms,     \* History::search_terms
    shell_type,       \* History::shell_type
    history_path,     \* History::history_path
    history_list,     \* History::history_list
    history_map,      \* History::history_map
    query_results,    \* History::query_results
    match_fn,         \* History::match_fn
    stdout,           \* the "{:?}:: {}" lines query_history_map has printed
    queries,          \* how many times query_history_map has run
    m_pc,             \* harness: position
    m_key,            \* harness: the candidate line
    m_args,           \* harness: the term list
    m_perm,           \* harness: a permutation of m_args
    m_ordered,        \* harness: ordered_match(m_key, m_args)
    m_unordered,      \* harness: unordered_match(m_key, m_args)
    m_unordered_perm  \* harness: unordered_match(m_key, m_perm)

hvars == <<cli, env, disk, overflow_checks, pc, search_terms, shell_type,
           history_path, history_list, history_map, query_results, match_fn,
           stdout, queries>>
mvars == <<m_pc, m_key, m_args, m_perm, m_ordered, m_unordered, m_unordered_perm>>
vars == <<hvars, mvars>>

(***************************************************************************)
(* Bounds of the model.                                                     *)
(***************************************************************************)
MaxKeyLen == 4     \* harness: longest candidate line
MaxTermLen == 2    \* harness: longest search term
MaxTerms == 2      \* harness: longest term list
MaxLines == 3      \* longest history file of Spec
MaxQueries == 2    \* executions of query_history_map over one built index

\* The largest value of the u16 position counter (`index: u16`, Vec<u16>).
U16Max == 65535

(***************************************************************************)
(* Strings.                                                                 *)
(***************************************************************************)
\* Option<usize>::None of str::find.
None == -1

RECURSIVE StringsUpTo(_, _)
\* Every string over the alphabet `chars` of length at most n.
StringsUpTo(chars, n) ==
    IF n = 0 THEN {<<>>}
    ELSE LET shorter == StringsUpTo(chars, n - 1)
         IN shorter \cup {Append(s, c) : s \in {t \in shorter : Len(t) = n - 1}, c \in chars}

\* The byte offsets at which pattern `a` occurs in `key`.
Occurrences(key, a) ==
    {p \in 0..(Len(key) - Len(a)) : SubSeq(key, p + 1, p + Len(a)) = a}

\* The least element of a non-empty set of naturals.
Least(S) == CHOOSE p \in S : \A q \in S : p <= q

\* key.find(&a): the offset of the first occurrence of `a` in `key`, or None.
\* The empty pattern occurs at offset 0 of every string, the empty one too.
find(key, a) ==
    IF Occurrences(key, a) = {} THEN None ELSE Least(Occurrences(key, a))

\* key[from..].to_string(): the suffix of key from offset `from`.
SliceFrom(key, from) == SubSeq(key, from + 1, Len(key))

\* key.replacen(&a, "", 1): key with the first occurrence of `a` cut out
\* (key itself when `a` does not occur; for the empty pattern the empty
\* match at offset 0 is replaced by nothing, which leaves key as it is).
replacen_first(key, a) ==
    IF find(key, a) = None THEN key
    ELSE SubSeq(key, 1, find(key, a)) \o SliceFrom(key, find(key, a) + Len(a))

(***************************************************************************)
(* The matchers (main.rs 230-257).                                          *)
(***************************************************************************)
RECURSIVE ordered_match_no_advance(_, _)
\* ordered_match with the slice taken at the start of the occurrence instead
\* of past its end (key[pos..] for key[pos + a.len()..]).
ordered_match_no_advance(key, args) ==
    IF args = <<>> THEN TRUE
    ELSE IF find(key, Head(args)) = None THEN FALSE
    ELSE ordered_match_no_advance(SliceFrom(key, find(key, Head(args))), Tail(args))

RECURSIVE ordered_match(_, _)
\* fn ordered_match: for each term in turn, find it in what is left of key,
\* fail when it is not there, keep what follows the occurrence.
ordered_match(key, args) ==
    IF args = <<>> THEN TRUE
    ELSE IF find(key, Head(args)) = None THEN FALSE
    ELSE ordered_match(SliceFrom(key, find(key, Head(args)) + Len(Head(args))),
                       Tail(args))

RECURSIVE replace_all(_, _)
\* key.replace(&a, ""): key with every occurrence of `a` cut out, the
\* occurrences taken left to right without overlap.
replace_all(key, a) ==
    IF a = <<>> \/ find(key, a) = None THEN key
    ELSE SubSeq(key, 1, find(key, a))
         \o replace_all(SliceFrom(key, find(key, a) + Len(a)), a)

RECURSIVE unordered_match_replace_all(_, _)
\* unordered_match written with replace for replacen(.., 1): a matched term
\* takes all of its occurrences out of the working copy.
unordered_match_replace_all(key, args) ==
    IF args = <<>> THEN TRUE
    ELSE IF find(key, Head(args)) = None THEN FALSE
    ELSE unordered_match_replace_all(replace_all(key, Head(args)), Tail(args))

RECURSIVE unordered_match(_, _)
\* fn unordered_match: for each term in turn, fail when it does not occur in
\* the working copy of key, else cut its first occurrence out of the copy.
unordered_match(key, args) ==
    IF args = <<>> THEN TRUE
    ELSE IF find(key, Head(args)) = None THEN FALSE
    ELSE unordered_match(replacen_first(key, Head(args)), Tail(args))

\* (self.match_fn)(key, args): the call through the function pointer.
call_match_fn(fn, key, args) ==
    IF fn = "ordered_match" THEN ordered_match(key, args)
    ELSE unordered_match(key, args)

(***************************************************************************)
(* The inputs of a run.                                                     *)
(***************************************************************************)
\* Three lines of a history file: two entries in zsh's extended format
\* (": <epoch>:<duration>;<command>") and one plain command.
ExtLs == <<":", ";", "l", "s">>
ExtCd == <<":", ";", "c", "d">>
PlainLs == <<"l", "s">>
RawLines == {ExtLs, ExtCd, PlainLs}

\* What io::Lines yields for one line of the file: Ok(text), or Err for a
\* line that is not valid UTF-8.
OkLine(text) == [ok |-> TRUE, text |-> text]
ErrLine == [ok |-> FALSE, text |-> <<>>]
FileEntries == {OkLine(l) : l \in RawLines} \cup {ErrLine}

RECURSIVE SeqsUpTo(_, _)
\* Every sequence over S of length at most n.
SeqsUpTo(S, n) ==
    IF n = 0 THEN {<<>>}
    ELSE LET shorter == SeqsUpTo(S, n - 1)
         IN shorter \cup {Append(s, e) : s \in {t \in shorter : Len(t) = n - 1}, e \in S}

\* A file on disk: whether File::open succeeds, and its lines, written as a
\* block of lines repeated `times` times.
NoFile == [readable |-> FALSE, lines |-> <<>>, times |-> 0]
SmallDisks ==
    {NoFile} \cup {[readable |-> TRUE, lines |-> ls, times |-> 1] :
                      ls \in SeqsUpTo(FileEntries, MaxLines)}
\* A history file of U16Max + 1 lines: the one-letter commands "l" and "s"
\* in turn.
LongDisks ==
    {[readable |-> TRUE, lines |-> <<OkLine(<<"l">>), OkLine(<<"s">>)>>,
      times |-> (U16Max + 1) \div 2]}

\* The lines io::Lines yields for the file, in file order.
Contents(d) ==
    [k \in 1..(Len(d.lines) * d.times) |-> d.lines[((k - 1) % Len(d.lines)) + 1]]

\* The command lines: four flags and the positional search terms.
Queries == {<<>>, <<<<"l">>>>, <<<<"l", "s">>, <<":">>>>}
CommandLines ==
    [history : BOOLEAN, file : BOOLEAN, dedupe : BOOLEAN, ordered : BOOLEAN,
     search_terms : Queries]

\* The environment: $SHELL (split at '/'), and the outcome of the fallback
\* `sh -c 'echo $0'`.
Environments ==
    {[shell_set |-> TRUE, shell |-> <<"", "bin", "zsh">>, sh_ok |-> TRUE, sh_out |-> <<"sh">>],
     [shell_set |-> FALSE, shell |-> <<>>, sh_ok |-> TRUE, sh_out |-> <<"sh">>],
     [shell_set |-> FALSE, shell |-> <<>>, sh_ok |-> FALSE, sh_out |-> <<>>]}

\* $HOME, the history files read_dir finds in it, and the path typed at the
\* prompt of get_file_path.
HomePath == <<"home">>
HomeHistoryFiles == {<<"home", ".zsh_history">>, <<"home", ".python_history">>}
TypedPaths == {<<"tmp", "commands.txt">>}
NoSelection == <<>>

(***************************************************************************)
(* History (main.rs 35-165).                                                *)
(***************************************************************************)
Ok(name) == [ok |-> TRUE, name |-> name]
Err == [ok |-> FALSE, name |-> ""]

\* fn get_shell: $SHELL, else the output of `sh -c 'echo $0'`; the shell is
\* the last '/'-separated segment of that path.
get_shell(e) ==
    IF e.shell_set THEN Ok(e.shell[Len(e.shell)])
    ELSE IF e.sh_ok THEN Ok(e.sh_out[Len(e.sh_out)])
    ELSE Err

\* format!(".{}_history", shell)
HistoryFileName(shell) ==
    CASE shell = "zsh" -> ".zsh_history"
      [] shell = "sh" -> ".sh_history"
      [] OTHER -> ".unknown_history"

\* History::new, lines 65-69: $HOME, with the shell's history file pushed
\* when the shell is known.
DefaultHistoryPath(st) ==
    IF st.ok THEN Append(HomePath, HistoryFileName(st.name)) ELSE HomePath

\* HashMap::new()
EmptyMap == [k \in {} |-> <<>>]

\* The state History::new returns, for every command line and environment.
HistoryNew(disks) ==
    /\ cli \in CommandLines
    /\ env \in Environments
    /\ disk \in disks
    /\ overflow_checks \in BOOLEAN
    /\ pc = "new"
    /\ search_terms = cli.search_terms
    /\ shell_type = get_shell(env)
    /\ history_path = DefaultHistoryPath(get_shell(env))
    /\ history_list = <<>>
    /\ history_map = EmptyMap
    /\ query_results = <<>>
    /\ match_fn = "unordered_match"
    /\ stdout = <<>>
    /\ queries = 0

\* The harness is idle while the program runs.
HarnessIdle ==
    /\ m_pc = "idle"
    /\ m_key = <<>>
    /\ m_args = <<>>
    /\ m_perm = <<>>
    /\ m_ordered = FALSE
    /\ m_unordered = FALSE
    /\ m_unordered_perm = FALSE

Init == HistoryNew(SmallDisks) /\ HarnessIdle

\* History::apply_flags: an if / else-if chain over the flags, in the order
\* history, file, ordered.  An Err of choose_file (nothing selected) panics
\* in expect.
apply_flags ==
    /\ pc = "new"
    /\ IF cli.history
       THEN \E sel \in HomeHistoryFiles \cup {NoSelection} :
               IF sel = NoSelection
               THEN /\ pc' = "panicked_expect"
                    /\ UNCHANGED <<history_path, match_fn>>
               ELSE /\ pc' = "flags_applied"
                    /\ history_path' = sel
                    /\ UNCHANGED match_fn
       ELSE IF cli.file
       THEN \E typed \in TypedPaths :
               /\ pc' = "flags_applied"
               /\ history_path' = typed
               /\ UNCHANGED match_fn
       ELSE IF cli.ordered
       THEN /\ pc' = "flags_applied"
            /\ match_fn' = "ordered_match"
            /\ UNCHANGED history_path
       ELSE /\ pc' = "flags_applied"
            /\ UNCHANGED <<history_path, match_fn>>
    /\ UNCHANGED <<cli, env, disk, overflow_checks, search_terms, shell_type,
                   history_list, history_map, query_results, stdout, queries>>
    /\ UNCHANGED mvars

\* The texts of the lines that were read without error, in file order.
DecodedLines(entries) ==
    LET good == SelectSeq(entries, LAMBDA e : e.ok)
    IN [k \in 1..Len(good) |-> good[k].text]

\* History::load_history: every Ok line of the file is pushed as it was
\* read; an Err line is reported and skipped; a file that cannot be opened
\* leaves the list as it is.
load_history ==
    /\ pc = "flags_applied"
    /\ pc' = "loaded"
    /\ history_list' = IF disk.readable
                       THEN history_list \o DecodedLines(Contents(disk))
                       ELSE history_list
    /\ UNCHANGED <<cli, env, disk, overflow_checks, search_terms, shell_type,
                   history_path, history_map, query_results, match_fn, stdout,
                   queries>>
    /\ UNCHANGED mvars

\* index += 1 on a u16: past U16Max the addition overflows; a build with
\* overflow checks panics there, a build without them wraps to 0.
Overflows(index) == index = U16Max
WrappingAddOne(index) == (index + 1) % (U16Max + 1)

\* self.history_map.entry(line).or_insert_with(Vec::new).push(index)
PushPosition(map, line, index) ==
    IF line \in DOMAIN map
    THEN [map EXCEPT ![line] = Append(@, index)]
    ELSE (line :> <<index>>) @@ map

\* One iteration of the loop of load_history_map, lines 157-163, on the
\* loop state (index, map, panicked).
LoadLine(st, line, checks) ==
    IF st.panicked THEN st
    ELSE IF Overflows(st.index) /\ checks THEN [st EXCEPT !.panicked = TRUE]
    ELSE [index |-> WrappingAddOne(st.index),
          map |-> PushPosition(st.map, line, WrappingAddOne(st.index)),
          panicked |-> FALSE]

RECURSIVE LoadLines(_, _, _, _, _)
\* The iterations of the loop for lines[lo..hi], in order, from loop state
\* st.  The range is halved so that the evaluation nests only to the
\* logarithm of its length; the lines are still taken first to last.
LoadLines(st, lines, lo, hi, checks) ==
    IF lo > hi THEN st
    ELSE IF lo = hi THEN LoadLine(st, lines[lo], checks)
    ELSE LET mid == (lo + hi) \div 2
             left == LoadLines(st, lines, lo, mid, checks)
         IN IF left.panicked THEN left
            ELSE LoadLines(left, lines, mid + 1, hi, checks)

\* History::load_history_map: `index` starts at 0, and every line of
\* history_list, in order, gets the incremented index pushed under its text.
load_history_map ==
    /\ pc = "loaded"
    /\ LET end == LoadLines([index |-> 0, map |-> history_map, panicked |-> FALSE],
                            history_list, 1, Len(history_list), overflow_checks)
       IN IF end.panicked
          THEN pc' = "panicked_overflow" /\ UNCHANGED history_map
          ELSE pc' = "mapped" /\ history_map' = end.map
    /\ UNCHANGED <<cli, env, disk, overflow_checks, search_terms, shell_type,
                   history_path, history_list, query_results, match_fn, stdout,
                   queries>>
    /\ UNCHANGED mvars

\* The orders in which HashMap::keys may yield the keys of map: each key
\* once, in an order the hasher decides.
KeyOrders(map) ==
    LET n == Cardinality(DOMAIN map)
    IN {o \in [1..n -> DOMAIN map] : \A i, j \in 1..n : o[i] = o[j] => i = j}

\* The keys of `order` that match_fn accepts for the terms, in that order.
MatchingKeys(order, fn, terms) ==
    SelectSeq(order, LAMBDA key : call_match_fn(fn, key, terms))

\* History::query_history_map: every key that match_fn accepts is pushed to
\* query_results and printed with its positions.  main runs the query once;
\* nothing in History stops a built index from being queried again, and the
\* action stays enabled for MaxQueries executions.
query_history_map ==
    /\ pc \in {"mapped", "queried"}
    /\ queries < MaxQueries
    /\ pc' = "queried"
    /\ queries' = queries + 1
    /\ \E order \in KeyOrders(history_map) :
          LET found == MatchingKeys(order, match_fn, search_terms)
          IN /\ query_results' = query_results \o found
             /\ stdout' = stdout \o [k \in 1..Len(found) |->
                                        [positions |-> history_map[found[k]],
                                         key |-> found[k]]]
    /\ UNCHANGED <<cli, env, disk, overflow_checks, search_terms, shell_type,
                   history_path, history_list, history_map, match_fn>>
    /\ UNCHANGED mvars

\* main, lines 300-302: the two counts are printed and the process exits.
exit ==
    /\ pc = "queried"
    /\ pc' = "exited"
    /\ UNCHANGED <<cli, env, disk, overflow_checks, search_terms, shell_type,
                   history_path, history_list, history_map, query_results,
                   match_fn, stdout, queries>>
    /\ UNCHANGED mvars

Next ==
    \/ apply_flags
    \/ load_history
    \/ load_history_map
    \/ query_history_map
    \/ exit

Spec == Init /\ [][Next]_vars

\* The same program on a history file one line longer than the u16 counter
\* can count.
LongInit ==
    /\ HistoryNew(LongDisks)
    /\ search_terms = <<<<"l">>>>
    /\ env.shell_set
    /\ ~cli.dedupe
    /\ HarnessIdle

LongSpec == LongInit /\ [][Next]_vars

(***************************************************************************)
(* The matchers on their own: both are applied to every candidate line and  *)
(* every term list of a bounded universe, and unordered_match once more to  *)
(* a permutation of the terms.                                              *)
(***************************************************************************)
Alphabet == {"a", "b"}
Candidates == StringsUpTo(Alphabet, MaxKeyLen)
Terms == StringsUpTo(Alphabet, MaxTermLen)
TermLists == SeqsUpTo(Terms, MaxTerms)

\* The rearrangements of a term list.
PermutationsOf(args) ==
    LET n == Len(args)
        bijections == {f \in [1..n -> 1..n] : \A i, j \in 1..n : f[i] = f[j] => i = j}
    IN {[k \in 1..n |-> args[f[k]]] : f \in bijections}

\* The program is not running while the harness is.
ProgramIdle ==
    /\ cli = [history |-> FALSE, file |-> FALSE, dedupe |-> FALSE, ordered |-> FALSE,
              search_terms |-> <<>>]
    /\ env = [shell_set |-> FALSE, shell |-> <<>>, sh_ok |-> FALSE, sh_out |-> <<>>]
    /\ disk = NoFile
    /\ overflow_checks = FALSE
    /\ pc = "idle"
    /\ search_terms = <<>>
    /\ shell_type = Err
    /\ history_path = HomePath
    /\ history_list = <<>>
    /\ history_map = EmptyMap
    /\ query_results = <<>>
    /\ match_fn = "unordered_match"
    /\ stdout = <<>>
    /\ queries = 0

MatchInit ==
    /\ ProgramIdle
    /\ m_pc = "start"
    /\ m_key \in Candidates
    /\ m_args \in TermLists
    /\ m_perm = m_args
    /\ m_ordered = FALSE
    /\ m_unordered = FALSE
    /\ m_unordered_perm = FALSE

\* ordered_match(m_key, m_args)
MatchOrdered ==
    /\ m_pc = "start"
    /\ m_pc' = "ordered"
    /\ m_ordered' = ordered_match(m_key, m_args)
    /\ UNCHANGED <<m_key, m_args, m_perm, m_unordered, m_unordered_perm>>
    /\ UNCHANGED hvars

\* unordered_match(m_key, m_args)
MatchUnordered ==
    /\ m_pc = "ordered"
    /\ m_pc' = "unordered"
    /\ m_unordered' = unordered_match(m_key, m_args)
    /\ UNCHANGED <<m_key, m_args, m_perm, m_ordered, m_unordered_perm>>
    /\ UNCHANGED hvars

\* unordered_match(m_key, p) for a rearrangement p of m_args
MatchPermuted ==
    /\ m_pc = "unordered"
    /\ m_pc' = "permuted"
    /\ \E p \in PermutationsOf(m_args) :
          /\ m_perm' = p
          /\ m_unordered_perm' = unordered_match(m_key, p)
    /\ UNCHANGED <<m_key, m_args, m_ordered, m_unordered>>
    /\ UNCHANGED hvars

MatchNext ==
    \/ MatchOrdered
    \/ MatchUnordered
    \/ MatchPermuted

MatchSpec == MatchInit /\ [][MatchNext]_vars

(***************************************************************************)
(* The matchers: what the specification says of them.                       *)
(***************************************************************************)
\* The ways to give every term of args an occurrence in key: f[i] is the
\* offset at which term i is placed.
Placements(key, args) ==
    {f \in [1..Len(args) -> 0..Len(key)] :
        \A i \in 1..Len(args) : f[i] \in Occurrences(key, args[i])}

\* Occurrences of terms i and j that share no character of key.
Disjoint(f, args, i, j) ==
    \/ f[i] + Len(args[i]) <= f[j]
    \/ f[j] + Len(args[j]) <= f[i]

\* The terms have pairwise non-overlapping occurrences in key.
HasDisjointPlacement(key, args) ==
    \E f \in Placements(key, args) :
        \A i, j \in 1..Len(args) : i < j => Disjoint(f, args, i, j)

\* The terms have occurrences in key in the order given, each starting at or
\* after the end of the one before.
HasOrderedPlacement(key, args) ==
    \E f \in Placements(key, args) :
        \A i \in 1..(Len(args) - 1) : f[i] + Len(args[i]) <= f[i + 1]

\* No term is listed twice.
NoRepeatedTerm(args) ==
    \A i, j \in 1..Len(args) : args[i] = args[j] => i = j

\* The states in which a matcher has just returned (its arguments and its
\* result do not change afterwards).
OrderedApplied == m_pc = "ordered"
UnorderedApplied == m_pc = "unordered"

\* C1: unordered_match accepts a line only if the terms have pairwise
\* non-overlapping occurrences in the line as it was given (every term a
\* substring of the line itself, no occurrence serving two terms).
C1_UnorderedNeedsDisjointOccurrences ==
    (UnorderedApplied /\ m_unordered) => HasDisjointPlacement(m_key, m_args)

\* C2: ordered_match accepts a line if and only if the terms occur in it as
\* non-overlapping substrings in the given order, each occurrence starting
\* at or after the end of the previous one.
C2_OrderedIffOrderedPlacement ==
    OrderedApplied => (m_ordered <=> HasOrderedPlacement(m_key, m_args))

\* C2, its case: a term listed twice and found twice, one occurrence after
\* the other ("foofoo" against ["foo", "foo"]).
C2_Witness ==
    /\ m_pc = "ordered"
    /\ m_ordered
    /\ Len(m_args) = 2
    /\ m_args[1] = m_args[2]
    /\ m_args[1] # <<>>
    /\ Len(m_key) = 2 * Len(m_args[1])

\* C3: for a term list without repeated terms, a line that ordered_match
\* accepts is accepted by unordered_match.
C3_OrderedImpliesUnordered ==
    (UnorderedApplied /\ NoRepeatedTerm(m_args) /\ m_ordered) => m_unordered

\* C3, its case: two different non-empty terms found in order, the second
\* of them occurring before the first as well, so that the two scans consume
\* different occurrences of it.
C3_Witness ==
    /\ m_pc = "unordered"
    /\ Len(m_args) = 2
    /\ m_args[1] # m_args[2]
    /\ m_args[1] # <<>>
    /\ m_args[2] # <<>>
    /\ m_ordered
    /\ m_unordered
    /\ find(m_key, m_args[2]) < find(m_key, m_args[1])

\* C4: under both matchers the empty line matches a term list if and only
\* if the list is empty; the empty line against [""] is not a match.
C4_EmptyLineMatchesOnlyEmptyList ==
    (UnorderedApplied /\ m_key = <<>>) =>
        /\ m_ordered <=> (m_args = <<>>)
        /\ m_unordered <=> (m_args = <<>>)

\* C8: unordered_match gives the same answer for every rearrangement of the
\* term list.
C8_UnorderedIgnoresTermOrder ==
    m_pc = "permuted" => (m_unordered_perm = m_unordered)

(***************************************************************************)
(* The index and the query: what the specification says of them.            *)
(***************************************************************************)
IndexBuilt == pc \in {"mapped", "queried", "exited"}
FlagsApplied == pc \in {"flags_applied", "loaded", "mapped", "queried", "exited"}
Queried == pc \in {"queried", "exited"}

\* The elements of a sequence.
Range(s) == {s[k] : k \in 1..Len(s)}

\* The 1-based positions of `text` in the list of lines, ascending.
PositionsOf(lines, text) ==
    SelectSeq([k \in 1..Len(lines) |-> k], LAMBDA k : lines[k] = text)

StrictlyIncreasing(s) == \A j \in 1..(Len(s) - 1) : s[j] < s[j + 1]

\* How often x is listed in the sequence s.
Count(s, x) == Cardinality({k \in 1..Len(s) : s[k] = x})

\* C5: after load_history_map the index has exactly one key per distinct
\* line text, and the list under each key is never empty, strictly
\* increasing, and holds exactly the 1-based positions of that text in the
\* input, so that the lists together partition 1..n.
C5_IndexListsEveryPositionOnce ==
    IndexBuilt =>
        /\ DOMAIN history_map = Range(history_list)
        /\ \A key \in DOMAIN history_map :
              /\ history_map[key] # <<>>
              /\ StrictlyIncreasing(history_map[key])
              /\ Range(history_map[key]) =
                    {k \in 1..Len(history_list) : history_list[k] = key}

\* The normalisation the specification gives for zsh's extended history:
\* the text after the last ';' of the raw line (the whole line when it has
\* none, as for the plain "ls -la" of the specification's example).
AfterLastSemicolon(raw) ==
    LET at == {k \in 1..Len(raw) : raw[k] = ";"}
    IN IF at = {} THEN raw
       ELSE SubSeq(raw, (CHOOSE k \in at : \A j \in at : j <= k) + 1, Len(raw))

\* C6: when the shell is zsh, every raw line read from the history file is
\* indexed under the text after its last ';', at its position in the file,
\* and the query reports keys of that form only.
C6_ZshLinesIndexedNormalized ==
    (IndexBuilt /\ shell_type = Ok("zsh") /\ disk.readable) =>
        LET raw == DecodedLines(Contents(disk))
        IN /\ \A k \in 1..Len(raw) :
                 /\ AfterLastSemicolon(raw[k]) \in DOMAIN history_map
                 /\ k \in Range(history_map[AfterLastSemicolon(raw[k])])
           /\ \A k \in 1..Len(stdout) :
                 stdout[k].key \in {AfterLastSemicolon(raw[j]) : j \in 1..Len(raw)}

\* C7: after apply_flags the match function is ordered_match if the ordered
\* flag is set and unordered_match otherwise, whatever the other flags are,
\* and it stays so through the query.
C7_MatchFnFollowsOrderedFlag ==
    FlagsApplied =>
        match_fn = (IF cli.ordered THEN "ordered_match" ELSE "unordered_match")

\* C9: after any number of executions of query_history_map the result set
\* holds each key the selected matcher accepts exactly once and no other
\* key, and the index is what load_history_map built.
C9_EachMatchingKeyOnce ==
    Queried =>
        /\ \A key \in DOMAIN history_map :
              call_match_fn(match_fn, key, search_terms) => Count(query_results, key) = 1
        /\ \A k \in 1..Len(query_results) :
              /\ query_results[k] \in DOMAIN history_map
              /\ call_match_fn(match_fn, query_results[k], search_terms)
        /\ \A key \in DOMAIN history_map :
              history_map[key] = PositionsOf(history_list, key)

\* C10: for a history list of any length, load_history_map records position
\* k for the k-th line: the counter neither wraps around nor aborts the run.
C10_PositionCounterNeverOverflows ==
    /\ pc # "panicked_overflow"
    /\ IndexBuilt =>
          \A key \in DOMAIN history_map :
              history_map[key] = PositionsOf(history_list, key)

====
